---- MODULE Spec2Model ----
(***************************************************************************)
(* A model of the playback buffering core of the web application:          *)
(* VideoBufferManager (services/playback/video-buffer-manager.ts), the     *)
(* calls SmoothVideoPlayer makes on it, and VideoThumbnailCache            *)
(* (services/renderer/video-thumbnail-cache.ts).                           *)
(*                                                                         *)
(* Sizes are counted in MiB (the code counts bytes; every size the model   *)
(* uses is a whole number of MiB, so the comparisons are the same).        *)
(* Times passed to addSegment are media seconds, the clock `now` is        *)
(* Date.now() in milliseconds.                                             *)
(***************************************************************************)
EXTENDS Integers, Sequences, FiniteSets, Bags, TLC

(* ---------------------------------------------------------------------- *)
(* Program constants                                                       *)
(* ---------------------------------------------------------------------- *)
maxBufferSize == 100          \* 100 * 1024 * 1024 bytes, in MiB
segmentDuration == 2
initialMaxSegmentsAhead == 10
initialPoolSize == 20
maxPoolSize == 50
maxCacheSize == 100
evictAgeMs == 60000
evictPriorityCutoff == 5
healthThrottleMs == 100
maxFramePool == 30
maxTexturePool == 10
frameDropThreshold == 5
horizonStep == 2
maxHorizon == 20
minHorizon == 5

(* ---------------------------------------------------------------------- *)
(* Bounds of the model and the inputs the environment may supply           *)
(* ---------------------------------------------------------------------- *)
MaxSegments == 4              \* addSegment calls in one run
MaxNow == 68050               \* the clock stops advancing here

\* The clock starts where a segment starting at 0, 2 or 4 is already older
\* than the eviction age; one starting at 6 or 8 gets older than it with the
\* tick, and one starting at 10 stays younger.
NowInit == 65950
TickSteps == {2100}

\* the addSegment calls the environment makes: <<startTime, byteLength, priority>>
SegmentInputs ==
    { <<0, 45, 10>>, <<2, 30, 7>>, <<4, 45, 4>>,
      <<6, 45, 1>>, <<8, 10, 1>>, <<10, 0, 1>> }
Callbacks == {1}
\* the callbacks of the run with callbacks that unsubscribe: 1 only reads the
\* snapshot, 2 calls its own unsubscribe function, 3 calls that of 1
Observers == {1, 2, 3}
MaxShortTicks == 3            \* short clock steps in one run
ShortSteps == {50}
PlaybackTimes == 0 .. 11

MaxPreloads == 2              \* preloadAroundTime calls in one run
MaxFetched == 2               \* fetched segments added in one run
MediaDuration == 6            \* the server has the media up to here (seconds)

\* video.currentTime in half seconds: 0 s and 4.5 s
Positions == {0, 9}
\* networkSpeed in tenths of a unit: 0.5, 1, 3, 5 and 8
NetworkSpeeds == {5, 10, 30, 50, 80}
\* byteLength of a fetched segment
FetchSizes == {30}

MaxCalls == 3                 \* getThumbnail calls in one run

\* the (videoUrl, time) pairs getThumbnail is called with; time 101 is that
\* of the first thumbnail of a cache that starts filled
\* the frame drops counted between two clear() calls
MaxFrameDrops == 8

VideoUrls == {"v"}

\* the bufferHealth percentage the player holds: NoHealth before the first
\* snapshot, then the bounds of the four classes and their neighbours
NoHealth == 0 - 1
HealthInputs == {NoHealth, 0, 20, 21, 50, 51, 80, 81, 100}
ThumbnailTimes == {1, 2, 101}
\* the lists preloadThumbnails is called with
PreloadTimes == { <<1, 2>>, <<1, 1>> }

MaxDetects == 2               \* detectCapabilities calls in one run
MaxFrames == 2                \* frames the decoders deliver in one run
MaxHeld == 1                  \* frames the consumer holds at one time

\* what the platform answers to the probes of detectCapabilities:
\* requestAdapter / getContext('webgl2') gives an adapter, gives null, or throws
GpuProbes == {"adapter", "none", "throws"}
\* 'VideoDecoder' in window
DecoderProbes == {"present", "absent"}
\* configure(codec, accelerationPreference) returns true, returns false, or throws
ConfigureOutcomes == {"true", "false", "throws"}

VARIABLES
    created,                \* how many BufferSegment objects addSegment has constructed
    segments,               \* the Map: its values in insertion order, one per key
    decodeQueue,
    decoding,               \* segments held by suspended startDecoding loops (awaiting decodeSegment)
    isDecoding,
    currentMemoryUsage,
    bufferPool,             \* number of buffers in the reuse pool
    maxSegmentsAhead,
    frameDropCount,
    bufferUnderrunCount,
    bufferHealthCallbacks,
    lastBufferHealthUpdate,
    now,                    \* Date.now()
    lastResult,             \* how the last addSegment call returned
    evictLog,               \* history: what the eviction run of the last addSegment did
    lastDecode,             \* history: "ok"/"failed" when the last step resumed a decode
    notified,               \* history: the deliveries <<callback, health>> made by the last step
    \* the player and the preloads it asks for
    currentTime,            \* video.currentTime, in half seconds
    fetches,                \* the fetchSegment calls awaited by preloadAroundTime callbacks (a bag)
    preloads,               \* how many preloadAroundTime calls were made
    lastPreload,            \* history: what the preloadAroundTime call of the last step computed
    \* the thumbnail cache
    cache,                  \* the Map: its entries in insertion order
    generating,             \* the Map key -> promise, as a set of [key, gen]
    pending,                \* the generations not settled yet, each with its waiting callers
    genCount,               \* how many generateThumbnail calls were made
    callCount,              \* how many getThumbnail calls were made
    thumbLog,               \* history: what the thumbnail step just taken did
    \* hardware acceleration and the decoded frames
    acceleration,           \* the HardwareAcceleration object and the frames the decoders delivered
    accelLog                \* history: what the acceleration step just taken did

managerVars == <<created, segments, decodeQueue, decoding, isDecoding, currentMemoryUsage,
                 bufferPool, maxSegmentsAhead, frameDropCount, bufferUnderrunCount,
                 bufferHealthCallbacks, lastBufferHealthUpdate, now, lastResult, evictLog,
                 lastDecode, notified>>

playerVars == <<currentTime, fetches, preloads, lastPreload>>

thumbnailVars == <<cache, generating, pending, genCount, callCount, thumbLog>>

accelerationVars == <<acceleration, accelLog>>

\* the parts of `acceleration`
classDefinition == acceleration.classDefinition  \* which of the two declarations of the class is in force
capabilities == acceleration.capabilities        \* this.capabilities
detectCalls == acceleration.detectCalls          \* how many detectCapabilities calls were made
detecting == acceleration.detecting              \* the detectCapabilities calls suspended on their probes
probeRuns == acceleration.probeRuns              \* how many times the probes were run
framePool == acceleration.framePool              \* this.framePool: the frames, oldest first
closes == acceleration.closes                    \* per frame delivered by a decoder, its number of close() calls
held == acceleration.held                        \* the frames getFrame handed to the consumer
transfers == acceleration.transfers              \* the frames a suspended transferToGPU holds
texturePool == acceleration.texturePool          \* this.texturePool.length
bitmapJobs == acceleration.bitmapJobs            \* the frames whose createImageBitmap of storeDecodedFrame is pending

vars == <<managerVars, playerVars, thumbnailVars, accelerationVars>>

(* ---------------------------------------------------------------------- *)
(* BufferSegment objects                                                   *)
(*                                                                         *)
(* A segment is a record of the interface's fields plus `oid`, the         *)
(* identity of the object (the n-th object constructed has oid n): the     *)
(* Map, the decode queue and a suspended decode loop refer to the same     *)
(* object, and two objects with equal fields are still two objects.        *)
(* ---------------------------------------------------------------------- *)
Range(s) == {s[i] : i \in 1 .. Len(s)}

Front(s) == SubSeq(s, 1, Len(s) - 1)

Last(s) == s[Len(s)]

\* `segment_${startTime}_${endTime}`
SegmentId(seg) == <<seg.startTime, seg.endTime>>

\* Map.set: a key already present keeps its position and gets the new value
MapSet(m, seg) ==
    IF \E i \in 1 .. Len(m) : SegmentId(m[i]) = SegmentId(seg)
    THEN [i \in 1 .. Len(m) |-> IF SegmentId(m[i]) = SegmentId(seg) THEN seg ELSE m[i]]
    ELSE Append(m, seg)

\* Map.delete by key
MapDelete(m, key) == SelectSeq(m, LAMBDA x : SegmentId(x) # key)

\* segment.isDecoded = true, seen through the Map when the object is still in it
MarkDecoded(m, o) ==
    [i \in 1 .. Len(m) |-> IF m[i].oid = o THEN [m[i] EXCEPT !.isDecoded = TRUE] ELSE m[i]]

(* ---------------------------------------------------------------------- *)
(* Array.prototype.sort (stable)                                           *)
(* ---------------------------------------------------------------------- *)
\* decodeQueue.sort((a, b) => b.priority - a.priority): the element pushed
\* last goes behind every element whose priority is not lower than its own
\* variant: an element is put in front of the elements of equal priority
RECURSIVE InsertDescUnstable(_, _)
InsertDescUnstable(s, x) ==
    IF s = <<>> THEN <<x>>
    ELSE IF Last(s).priority > x.priority THEN Append(s, x)
    ELSE Append(InsertDescUnstable(Front(s), x), Last(s))

RECURSIVE InsertDesc(_, _)
InsertDesc(s, x) ==
    IF s = <<>> THEN <<x>>
    ELSE IF Last(s).priority >= x.priority THEN Append(s, x)
    ELSE Append(InsertDesc(Front(s), x), Last(s))

RECURSIVE SortDesc(_)
SortDesc(s) ==
    IF s = <<>> THEN <<>> ELSE InsertDesc(SortDesc(Front(s)), Last(s))

\* segmentsToEvict.sort((a, b) => a.priority - b.priority)
\* variant: the comparator reversed (b.priority - a.priority)
RECURSIVE InsertAscReversed(_, _)
InsertAscReversed(s, x) ==
    IF s = <<>> THEN <<x>>
    ELSE IF Last(s).priority >= x.priority THEN Append(s, x)
    ELSE Append(InsertAscReversed(Front(s), x), Last(s))

RECURSIVE InsertAsc(_, _)
InsertAsc(s, x) ==
    IF s = <<>> THEN <<x>>
    ELSE IF Last(s).priority <= x.priority THEN Append(s, x)
    ELSE Append(InsertAsc(Front(s), x), Last(s))

\* variant: the candidates are left in Map order
SortAscUnsorted(s) == s

RECURSIVE SortAsc(_)
SortAsc(s) ==
    IF s = <<>> THEN <<>> ELSE InsertAsc(SortAsc(Front(s)), Last(s))

(* ---------------------------------------------------------------------- *)
(* evictOldSegments                                                        *)
(* ---------------------------------------------------------------------- *)
\* age > 60000 && segment.priority < 5, age = Date.now() - startTime * 1000
IsEvictionCandidate(seg, t) ==
    /\ t - seg.startTime * 1000 > evictAgeMs
    /\ seg.priority < evictPriorityCutoff

\* returnToPool: the pool takes the buffer while it holds fewer than 50
returnToPool(pool) == IF pool < maxPoolSize THEN pool + 1 ELSE pool

\* currentMemoryUsage - segment.size < maxBufferSize * 0.8
FitsEvictTarget(mem, size) == (mem - size) * 10 < maxBufferSize * 8

\* the for loop over the sorted candidates, with its break
RECURSIVE EvictLoop(_, _)
EvictLoop(cands, st) ==
    IF cands = <<>> THEN st
    ELSE LET s == Head(cands) IN
         IF FitsEvictTarget(st.mem, s.size)
         THEN EvictLoop(Tail(cands),
                  [segments |-> MapDelete(st.segments, SegmentId(s)),
                   mem      |-> st.mem - s.size,
                   pool     |-> returnToPool(st.pool),
                   removed  |-> Append(st.removed, s)])
         ELSE st

evictOldSegments(m, mem, pool, t) ==
    LET segmentsToEvict == SortAsc(SelectSeq(m, LAMBDA s : IsEvictionCandidate(s, t)))
    IN EvictLoop(segmentsToEvict,
                 [segments |-> m, mem |-> mem, pool |-> pool, removed |-> <<>>])

NoEviction == [ran |-> FALSE, at |-> 0, memBefore |-> 0, memAfter |-> 0,
               removed |-> <<>>, kept |-> <<>>, inflight |-> {}]

(* ---------------------------------------------------------------------- *)
(* updateBufferHealth                                                      *)
(* ---------------------------------------------------------------------- *)
Decoded(m) == SelectSeq(m, LAMBDA s : s.isDecoded)

RECURSIVE PlayTime(_)
PlayTime(s) ==
    IF s = <<>> THEN 0
    ELSE (Head(s).endTime - Head(s).startTime) + PlayTime(Tail(s))

\* bufferHealth is kept as a whole percentage (the code keeps the fraction)
Health(m, mem) ==
    [totalSegments     |-> Len(m),
     loadedSegments    |-> Len(SelectSeq(m, LAMBDA s : s.isLoaded)),
     decodedSegments   |-> Len(Decoded(m)),
     bufferHealth      |-> IF Len(m) > 0 THEN (Len(Decoded(m)) * 100) \div Len(m) ELSE 0,
     estimatedPlayTime |-> PlayTime(Decoded(m)),
     memoryUsage       |-> mem]

\* the unsubscribe functions a callback calls when it is called
UnsubscribedBy(cb) ==
    IF cb = 2 THEN {2}
    ELSE IF cb = 3 THEN {1}
    ELSE {}

\* the unsubscribe function: indexOf and splice
unsubscribe(cbs, gone) == SelectSeq(cbs, LAMBDA c : c \notin gone)

\* bufferHealthCallbacks.forEach(callback => callback(health)): the index
\* moves on by one after each call, over the array as the call left it
RECURSIVE forEachCallback(_, _, _)
forEachCallback(cbs, k, health) ==
    IF k > Len(cbs)
    THEN [callbacks |-> cbs, notified |-> <<>>]
    ELSE LET rest == forEachCallback(unsubscribe(cbs, UnsubscribedBy(cbs[k])), k + 1, health)
         IN [callbacks |-> rest.callbacks,
             notified |-> <<<<cbs[k], health>>>> \o rest.notified]

\* variant: the throttle is missing
updateBufferHealthUnthrottled(m, mem) ==
    LET each == forEachCallback(bufferHealthCallbacks, 1, Health(m, mem))
    IN [last |-> now, notified |-> each.notified, callbacks |-> each.callbacks]

\* the throttle, the snapshot and the forEach over the callbacks
updateBufferHealth(m, mem) ==
    IF now - lastBufferHealthUpdate < healthThrottleMs
    THEN [last |-> lastBufferHealthUpdate, notified |-> <<>>,
          callbacks |-> bufferHealthCallbacks]
    ELSE LET each == forEachCallback(bufferHealthCallbacks, 1, Health(m, mem))
         IN [last |-> now, notified |-> each.notified, callbacks |-> each.callbacks]

(* ---------------------------------------------------------------------- *)
(* startDecoding                                                           *)
(* ---------------------------------------------------------------------- *)
\* the call up to its first await: the guard, the flag, the first shift.
\* A loop that passed the guard stays suspended on decodeSegment(segment).
\* variant: the isDecoding guard is missing
startDecodingUnguarded(q, flag, inflight) ==
    IF q = <<>>
    THEN [queue |-> q, isDecoding |-> flag, decoding |-> inflight]
    ELSE [queue |-> Tail(q), isDecoding |-> TRUE, decoding |-> inflight \cup {Head(q)}]

startDecoding(q, flag, inflight) ==
    IF flag \/ q = <<>>
    THEN [queue |-> q, isDecoding |-> flag, decoding |-> inflight]
    ELSE [queue |-> Tail(q), isDecoding |-> TRUE, decoding |-> inflight \cup {Head(q)}]

(* ---------------------------------------------------------------------- *)
(* Steps of one component leave the others alone; the history variables    *)
(* of a component describe the step just taken and are reset by the rest.  *)
(* ---------------------------------------------------------------------- *)
NoPreload == [by |-> "none", toLoad |-> <<>>]

NoThumbnail == [op |-> "none"]

NoAcceleration == [op |-> "none"]

\* this.capabilities = null
NoCapabilities == [gpuAcceleration |-> FALSE, videoDecoding |-> "null"]

NoPreloadStep ==
    /\ lastPreload' = NoPreload
    /\ UNCHANGED <<currentTime, fetches, preloads>>

NoThumbnailStep ==
    /\ thumbLog' = NoThumbnail
    /\ UNCHANGED <<cache, generating, pending, genCount, callCount>>

NoAccelerationStep ==
    /\ accelLog' = NoAcceleration
    /\ UNCHANGED acceleration

NoManagerStep ==
    /\ evictLog' = NoEviction
    /\ lastDecode' = "none"
    /\ notified' = <<>>
    /\ UNCHANGED <<created, segments, decodeQueue, decoding, isDecoding,
                   currentMemoryUsage, bufferPool, maxSegmentsAhead, frameDropCount,
                   bufferUnderrunCount, bufferHealthCallbacks, lastBufferHealthUpdate,
                   now, lastResult>>

(* ---------------------------------------------------------------------- *)
(* Initial state: the manager, the player and the cache after construction *)
(* ---------------------------------------------------------------------- *)
ManagerInit ==
    /\ created = 0
    /\ segments = <<>>
    /\ decodeQueue = <<>>
    /\ decoding = {}
    /\ isDecoding = FALSE
    /\ currentMemoryUsage = 0
    /\ bufferPool = initialPoolSize
    /\ maxSegmentsAhead = initialMaxSegmentsAhead
    /\ frameDropCount = 0
    /\ bufferUnderrunCount = 0
    /\ bufferHealthCallbacks = <<>>
    /\ lastBufferHealthUpdate = 0
    /\ now = NowInit
    /\ lastResult = "none"
    /\ evictLog = NoEviction
    /\ lastDecode = "none"
    /\ notified = <<>>

PlayerInit ==
    /\ currentTime = 0
    /\ fetches = EmptyBag
    /\ preloads = 0
    /\ lastPreload = NoPreload

ThumbnailInit ==
    /\ cache = <<>>
    /\ generating = {}
    /\ pending = {}
    /\ genCount = 0
    /\ callCount = 0
    /\ thumbLog = NoThumbnail

\* the object after construction, under the class declaration def, with the
\* frame pool and the close() counts that earlier deliveries left
Constructed(def, pool, closed) ==
    [classDefinition |-> def,
     capabilities |-> NoCapabilities,
     detectCalls |-> 0,
     detecting |-> 0,
     probeRuns |-> 0,
     framePool |-> pool,
     closes |-> closed,
     held |-> {},
     transfers |-> {},
     texturePool |-> 0,
     bitmapJobs |-> {}]

AccelerationInit ==
    /\ acceleration = Constructed(1, <<>>, <<>>)
    /\ accelLog = NoAcceleration

Init == ManagerInit /\ PlayerInit /\ ThumbnailInit /\ AccelerationInit

(* ---------------------------------------------------------------------- *)
(* addSegment(startTime, endTime, data, priority)                          *)
(* ---------------------------------------------------------------------- *)
addSegment(startTime, endTime, byteLength, priority) ==
    LET over == currentMemoryUsage + byteLength > maxBufferSize
        ev == IF over
              THEN evictOldSegments(segments, currentMemoryUsage, bufferPool, now)
              ELSE [segments |-> segments, mem |-> currentMemoryUsage,
                    pool |-> bufferPool, removed |-> <<>>]
        segment == [oid |-> created + 1,
                    startTime |-> startTime, endTime |-> endTime, size |-> byteLength,
                    isLoaded |-> TRUE, isDecoded |-> FALSE, priority |-> priority]
        m == MapSet(ev.segments, segment)
        mem == ev.mem + byteLength
        sd == startDecoding(SortDesc(Append(decodeQueue, segment)), isDecoding, decoding)
        uh == updateBufferHealth(m, mem)
    IN /\ created' = created + 1
       /\ segments' = m
       /\ currentMemoryUsage' = mem
       /\ bufferPool' = ev.pool
       /\ decodeQueue' = sd.queue
       /\ isDecoding' = sd.isDecoding
       /\ decoding' = sd.decoding
       /\ lastBufferHealthUpdate' = uh.last
       /\ notified' = uh.notified
       /\ bufferHealthCallbacks' = uh.callbacks
       /\ evictLog' = IF over
                      THEN [ran |-> TRUE, at |-> now, memBefore |-> currentMemoryUsage,
                            memAfter |-> ev.mem, removed |-> ev.removed,
                            kept |-> ev.segments, inflight |-> decoding]
                      ELSE NoEviction
       /\ lastResult' = "segmentId"
       /\ lastDecode' = "none"
       /\ UNCHANGED <<maxSegmentsAhead, frameDropCount, bufferUnderrunCount, now>>

AddSegment ==
    /\ created < MaxSegments
    /\ \E in \in SegmentInputs :
           addSegment(in[1], in[1] + segmentDuration, in[2], in[3])
    /\ NoPreloadStep
    /\ NoThumbnailStep
    /\ NoAccelerationStep

(* ---------------------------------------------------------------------- *)
(* startDecoding resumed after `await this.decodeSegment(segment)`         *)
(* ---------------------------------------------------------------------- *)
\* variant: the try/catch is missing, a rejected decode ends the loop where it is
DecodeResumeAbort(seg, ok) ==
    /\ seg \in decoding
    /\ segments' = IF ok THEN MarkDecoded(segments, seg.oid) ELSE segments
    /\ IF ok /\ decodeQueue # <<>>
       THEN /\ decodeQueue' = Tail(decodeQueue)
            /\ decoding' = (decoding \ {seg}) \cup {Head(decodeQueue)}
            /\ UNCHANGED isDecoding
       ELSE /\ decoding' = decoding \ {seg}
            /\ isDecoding' = (~ok)
            /\ UNCHANGED decodeQueue
    /\ evictLog' = NoEviction
    /\ lastDecode' = IF ok THEN "ok" ELSE "failed"
    /\ notified' = <<>>
    /\ UNCHANGED <<created, currentMemoryUsage, bufferPool, maxSegmentsAhead,
                   frameDropCount, bufferUnderrunCount, bufferHealthCallbacks, now,
                   lastResult, lastBufferHealthUpdate>>
    /\ NoPreloadStep
    /\ NoThumbnailStep
    /\ NoAccelerationStep

\* the rest of the loop body and the next iteration, or the exit of the loop
DecodeResume(seg, ok) ==
    LET m == IF ok THEN MarkDecoded(segments, seg.oid) ELSE segments
        uh == updateBufferHealth(m, currentMemoryUsage)
    IN /\ seg \in decoding
       /\ segments' = m
       /\ IF decodeQueue # <<>>
          THEN /\ decodeQueue' = Tail(decodeQueue)
               /\ decoding' = (decoding \ {seg}) \cup {Head(decodeQueue)}
               /\ UNCHANGED <<isDecoding, lastBufferHealthUpdate, bufferHealthCallbacks>>
               /\ notified' = <<>>
          ELSE /\ decoding' = decoding \ {seg}
               /\ isDecoding' = FALSE
               /\ lastBufferHealthUpdate' = uh.last
               /\ notified' = uh.notified
               /\ bufferHealthCallbacks' = uh.callbacks
               /\ UNCHANGED decodeQueue
       /\ evictLog' = NoEviction
       /\ lastDecode' = IF ok THEN "ok" ELSE "failed"
       /\ UNCHANGED <<created, currentMemoryUsage, bufferPool, maxSegmentsAhead,
                      frameDropCount, bufferUnderrunCount, now, lastResult>>
       /\ NoPreloadStep
       /\ NoThumbnailStep
       /\ NoAccelerationStep

\* decodeSegment resolved
DecodeSucceed == \E seg \in decoding : DecodeResume(seg, TRUE)

\* decodeSegment rejected (no VideoDecoder, or configure/decode threw)
DecodeFail == \E seg \in decoding : DecodeResume(seg, FALSE)

(* ---------------------------------------------------------------------- *)
(* clear()                                                                 *)
(* ---------------------------------------------------------------------- *)
\* variant: the memory counter is not reset
ClearKeepsUsage ==
    /\ segments' = <<>>
    /\ decodeQueue' = <<>>
    /\ frameDropCount' = 0
    /\ bufferUnderrunCount' = 0
    /\ evictLog' = NoEviction
    /\ lastDecode' = "none"
    /\ notified' = <<>>
    /\ UNCHANGED <<created, decoding, isDecoding, bufferPool, maxSegmentsAhead,
                   bufferHealthCallbacks, lastBufferHealthUpdate, now, lastResult,
                   currentMemoryUsage>>
    /\ NoPreloadStep
    /\ NoThumbnailStep
    /\ NoAccelerationStep

\* variant: the decode queue is not replaced by an empty one
ClearKeepsQueue ==
    /\ segments' = <<>>
    /\ currentMemoryUsage' = 0
    /\ frameDropCount' = 0
    /\ bufferUnderrunCount' = 0
    /\ evictLog' = NoEviction
    /\ lastDecode' = "none"
    /\ notified' = <<>>
    /\ UNCHANGED <<created, decoding, isDecoding, bufferPool, maxSegmentsAhead,
                   bufferHealthCallbacks, lastBufferHealthUpdate, now, lastResult,
                   decodeQueue>>
    /\ NoPreloadStep
    /\ NoThumbnailStep
    /\ NoAccelerationStep

Clear ==
    /\ segments' = <<>>
    /\ decodeQueue' = <<>>
    /\ currentMemoryUsage' = 0
    /\ frameDropCount' = 0
    /\ bufferUnderrunCount' = 0
    /\ evictLog' = NoEviction
    /\ lastDecode' = "none"
    /\ notified' = <<>>
    /\ UNCHANGED <<created, decoding, isDecoding, bufferPool, maxSegmentsAhead,
                   bufferHealthCallbacks, lastBufferHealthUpdate, now, lastResult>>
    /\ NoPreloadStep
    /\ NoThumbnailStep
    /\ NoAccelerationStep

(* ---------------------------------------------------------------------- *)
(* getMetrics()                                                            *)
(* ---------------------------------------------------------------------- *)
getMetrics ==
    [bufferHealth    |-> Health(segments, currentMemoryUsage),
     frameDrops      |-> frameDropCount,
     bufferUnderruns |-> bufferUnderrunCount,
     memoryUsage     |-> currentMemoryUsage]

(* ---------------------------------------------------------------------- *)
(* getSegment(time): the first segment of the Map, in insertion order,     *)
(* that passes the test; <<>> stands for null                              *)
(* ---------------------------------------------------------------------- *)
getSegment(m, time) ==
    LET found == SelectSeq(m, LAMBDA segment :
                     /\ time >= segment.startTime
                     /\ time <= segment.endTime
                     /\ segment.isDecoded)
    IN IF found = <<>> THEN <<>> ELSE <<Head(found)>>

(* ---------------------------------------------------------------------- *)
(* onBufferHealth(callback) and the unsubscribe function it returns        *)
(* ---------------------------------------------------------------------- *)
onBufferHealth(cb) ==
    /\ bufferHealthCallbacks' = Append(bufferHealthCallbacks, cb)
    /\ evictLog' = NoEviction
    /\ lastDecode' = "none"
    /\ notified' = <<>>
    /\ UNCHANGED <<created, segments, decodeQueue, decoding, isDecoding,
                   currentMemoryUsage, bufferPool, maxSegmentsAhead, frameDropCount,
                   bufferUnderrunCount, lastBufferHealthUpdate, now, lastResult>>
    /\ NoPreloadStep
    /\ NoThumbnailStep
    /\ NoAccelerationStep

OnBufferHealth ==
    \E cb \in Callbacks \ Range(bufferHealthCallbacks) : onBufferHealth(cb)

\* a callback that may unsubscribe when it is called
Subscribe ==
    \E cb \in Observers \ Range(bufferHealthCallbacks) : onBufferHealth(cb)

Unsubscribe ==
    \E cb \in Range(bufferHealthCallbacks) :
        /\ bufferHealthCallbacks' = unsubscribe(bufferHealthCallbacks, {cb})
        /\ evictLog' = NoEviction
        /\ lastDecode' = "none"
        /\ notified' = <<>>
        /\ UNCHANGED <<created, segments, decodeQueue, decoding, isDecoding,
                       currentMemoryUsage, bufferPool, maxSegmentsAhead, frameDropCount,
                       bufferUnderrunCount, lastBufferHealthUpdate, now, lastResult>>
        /\ NoPreloadStep
        /\ NoThumbnailStep
        /\ NoAccelerationStep

(* ---------------------------------------------------------------------- *)
(* The clock                                                               *)
(* ---------------------------------------------------------------------- *)
Tick ==
    \E d \in TickSteps :
        /\ now + d <= MaxNow
        /\ now' = now + d
        /\ evictLog' = NoEviction
        /\ lastDecode' = "none"
        /\ notified' = <<>>
        /\ UNCHANGED <<created, segments, decodeQueue, decoding, isDecoding,
                       currentMemoryUsage, bufferPool, maxSegmentsAhead, frameDropCount,
                       bufferUnderrunCount, bufferHealthCallbacks, lastBufferHealthUpdate,
                       lastResult>>
        /\ NoPreloadStep
        /\ NoThumbnailStep
        /\ NoAccelerationStep

\* the clock in steps shorter than the throttle of the health updates
TickShort ==
    \E d \in ShortSteps :
        /\ now + d <= NowInit + MaxShortTicks * d
        /\ now' = now + d
        /\ evictLog' = NoEviction
        /\ lastDecode' = "none"
        /\ notified' = <<>>
        /\ UNCHANGED <<created, segments, decodeQueue, decoding, isDecoding,
                       currentMemoryUsage, bufferPool, maxSegmentsAhead, frameDropCount,
                       bufferUnderrunCount, bufferHealthCallbacks, lastBufferHealthUpdate,
                       lastResult>>
        /\ NoPreloadStep
        /\ NoThumbnailStep
        /\ NoAccelerationStep

(* ---------------------------------------------------------------------- *)
(* calculateSegmentsToLoad, calculatePriority                              *)
(*                                                                         *)
(* Playback times are counted in half seconds (the player passes           *)
(* video.currentTime, a fraction of a second); segment times are whole     *)
(* seconds, as Math.floor makes them.                                      *)
(* ---------------------------------------------------------------------- *)
Abs(x) == IF x < 0 THEN -x ELSE x

\* Math.floor(currentTime)
Floor(h) == h \div 2

\* `segment_${segmentTime}`, the key both has() calls look up
ProbeId(segmentTime) == <<segmentTime>>

\* Map.has
MapHas(m, key) == \E i \in 1 .. Len(m) : SegmentId(m[i]) = key

calculateSegmentsToLoad(m, horizon, h) ==
    SelectSeq([i \in 1 .. horizon |-> Floor(h) + (i - 1) * segmentDuration],
              LAMBDA segmentTime : ~MapHas(m, ProbeId(segmentTime)))

\* variant: the bounds of the distance classes are inclusive
calculatePriorityInclusive(segmentTime, h) ==
    LET distance2 == Abs(2 * segmentTime - h)
    IN IF distance2 <= 4 THEN 10
       ELSE IF distance2 <= 10 THEN 7
       ELSE IF distance2 <= 20 THEN 4
       ELSE 1

\* distance < 2, < 5, < 10 with the distance doubled
calculatePriority(segmentTime, h) ==
    LET distance2 == Abs(2 * segmentTime - h)
    IN IF distance2 < 4 THEN 10
       ELSE IF distance2 < 10 THEN 7
       ELSE IF distance2 < 20 THEN 4
       ELSE 1

(* ---------------------------------------------------------------------- *)
(* preloadAroundTime(currentTime, videoUrl)                                *)
(*                                                                         *)
(* The call up to the awaits of its callbacks: each callback has issued    *)
(* its fetch and holds segmentTime and currentTime. A request beyond the   *)
(* end of the media is answered with an error status, which the callback   *)
(* logs and nothing else: only the other fetches are kept.                 *)
(* ---------------------------------------------------------------------- *)
preloadAroundTime(h, horizon, by) ==
    LET segmentsToLoad == calculateSegmentsToLoad(segments, horizon, h)
        loading == {segmentsToLoad[i] : i \in 1 .. Len(segmentsToLoad)}
        issued == {[segmentTime |-> t, currentTime |-> h] :
                      t \in {x \in loading : /\ ~MapHas(segments, ProbeId(x))
                                              /\ x + segmentDuration <= MediaDuration}}
    IN /\ fetches' = fetches (+) SetToBag(issued)
       /\ preloads' = preloads + 1
       /\ lastPreload' = [by |-> by, at |-> h, position |-> currentTime,
                          previous |-> maxSegmentsAhead, toLoad |-> segmentsToLoad]
       /\ UNCHANGED currentTime

PreloadAroundTime ==
    /\ preloads < MaxPreloads
    /\ preloadAroundTime(currentTime, maxSegmentsAhead, "preloadAroundTime")
    /\ NoManagerStep
    /\ NoThumbnailStep
    /\ NoAccelerationStep

(* ---------------------------------------------------------------------- *)
(* adaptiveBuffering(networkSpeed, currentTime)                            *)
(* ---------------------------------------------------------------------- *)
\* variant: the bounds of the speed classes are inclusive
horizonForInclusive(networkSpeed) ==
    IF networkSpeed <= 10 THEN 15
    ELSE IF networkSpeed <= 50 THEN 10
    ELSE 5

\* networkSpeed < 1, < 5, else; the speed in tenths
horizonFor(networkSpeed) ==
    IF networkSpeed < 10 THEN 15
    ELSE IF networkSpeed < 50 THEN 10
    ELSE 5

adaptiveBuffering(networkSpeed, h) ==
    /\ maxSegmentsAhead' = horizonFor(networkSpeed)
    /\ preloadAroundTime(h, horizonFor(networkSpeed), "adaptiveBuffering")
    /\ evictLog' = NoEviction
    /\ lastDecode' = "none"
    /\ notified' = <<>>
    /\ UNCHANGED <<created, segments, decodeQueue, decoding, isDecoding,
                   currentMemoryUsage, bufferPool, frameDropCount, bufferUnderrunCount,
                   bufferHealthCallbacks, lastBufferHealthUpdate, now, lastResult>>
    /\ NoThumbnailStep
    /\ NoAccelerationStep

AdaptiveBuffering ==
    /\ preloads < MaxPreloads
    /\ \E networkSpeed \in NetworkSpeeds : adaptiveBuffering(networkSpeed, currentTime)

(* ---------------------------------------------------------------------- *)
(* handleTimeUpdate of the player: preloadAroundTime(video.currentTime),   *)
(* then adaptiveBuffering(estimateNetworkSpeed(), video.currentTime). The  *)
(* health is the bufferHealth state the handler's closure holds: the       *)
(* percentage of the snapshot, or NoHealth for null.                       *)
(* ---------------------------------------------------------------------- *)
\* Mbps in tenths: 5 by default, 10, 5, 2, and 1 for the rest
estimateNetworkSpeed(health) ==
    IF health = NoHealth THEN 50
    ELSE IF health > 80 THEN 100
    ELSE IF health > 50 THEN 50
    ELSE IF health > 20 THEN 20
    ELSE 10

handleTimeUpdate(health) ==
    LET h == currentTime
        horizon == horizonFor(estimateNetworkSpeed(health))
        Issued(toLoad) ==
            {[segmentTime |-> t, currentTime |-> h] :
                t \in {x \in Range(toLoad) : /\ ~MapHas(segments, ProbeId(x))
                                               /\ x + segmentDuration <= MediaDuration}}
        first == calculateSegmentsToLoad(segments, maxSegmentsAhead, h)
        second == calculateSegmentsToLoad(segments, horizon, h)
    IN /\ maxSegmentsAhead' = horizon
       /\ fetches' = (fetches (+) SetToBag(Issued(first))) (+) SetToBag(Issued(second))
       /\ preloads' = preloads + 2
       /\ lastPreload' = [by |-> "handleTimeUpdate", at |-> h, position |-> h,
                          previous |-> maxSegmentsAhead, toLoad |-> second]
       /\ evictLog' = NoEviction
       /\ lastDecode' = "none"
       /\ notified' = <<>>
       /\ UNCHANGED <<created, segments, decodeQueue, decoding, isDecoding,
                      currentMemoryUsage, bufferPool, frameDropCount, bufferUnderrunCount,
                      bufferHealthCallbacks, lastBufferHealthUpdate, now, lastResult,
                      currentTime>>
       /\ NoThumbnailStep
       /\ NoAccelerationStep

HandleTimeUpdate ==
    /\ preloads + 2 <= MaxPreloads
    /\ \E health \in HealthInputs : handleTimeUpdate(health)

(* ---------------------------------------------------------------------- *)
(* onBufferUnderrun()                                                      *)
(* ---------------------------------------------------------------------- *)
OnBufferUnderrun ==
    /\ preloads < MaxPreloads
    /\ bufferUnderrunCount' = bufferUnderrunCount + 1
    /\ preloadAroundTime(0, maxSegmentsAhead, "onBufferUnderrun")
    /\ evictLog' = NoEviction
    /\ lastDecode' = "none"
    /\ notified' = <<>>
    /\ UNCHANGED <<created, segments, decodeQueue, decoding, isDecoding,
                   currentMemoryUsage, bufferPool, maxSegmentsAhead, frameDropCount,
                   bufferHealthCallbacks, lastBufferHealthUpdate, now, lastResult>>
    /\ NoThumbnailStep
    /\ NoAccelerationStep

(* ---------------------------------------------------------------------- *)
(* onFrameDrop()                                                           *)
(* ---------------------------------------------------------------------- *)
\* variant: the widened horizon has no upper limit
onFrameDropUncapped(count, horizon) ==
    [frameDropCount |-> count + 1,
     maxSegmentsAhead |-> IF count + 1 > frameDropThreshold
                          THEN horizon + horizonStep
                          ELSE horizon]

\* this.frameDropCount++; if (this.frameDropCount > 5)
\*     this.maxSegmentsAhead = Math.min(this.maxSegmentsAhead + 2, 20)
onFrameDrop(count, horizon) ==
    [frameDropCount |-> count + 1,
     maxSegmentsAhead |-> IF count + 1 > frameDropThreshold
                          THEN IF horizon + horizonStep < maxHorizon
                               THEN horizon + horizonStep
                               ELSE maxHorizon
                          ELSE horizon]

OnFrameDrop ==
    /\ frameDropCount < MaxFrameDrops
    /\ frameDropCount' = onFrameDrop(frameDropCount, maxSegmentsAhead).frameDropCount
    /\ maxSegmentsAhead' = onFrameDrop(frameDropCount, maxSegmentsAhead).maxSegmentsAhead
    /\ evictLog' = NoEviction
    /\ lastDecode' = "none"
    /\ notified' = <<>>
    /\ UNCHANGED <<created, segments, decodeQueue, decoding, isDecoding,
                   currentMemoryUsage, bufferPool, bufferUnderrunCount,
                   bufferHealthCallbacks, lastBufferHealthUpdate, now, lastResult>>
    /\ NoPreloadStep
    /\ NoThumbnailStep
    /\ NoAccelerationStep

(* ---------------------------------------------------------------------- *)
(* A fetch settles and the callback of preloadAroundTime goes on           *)
(* ---------------------------------------------------------------------- *)
\* fetchSegment resolved: addSegment with the priority of the callback's times
FetchSucceed ==
    /\ created < MaxFetched
    /\ \E f \in BagToSet(fetches) : \E byteLength \in FetchSizes :
           /\ addSegment(f.segmentTime, f.segmentTime + segmentDuration, byteLength,
                         calculatePriority(f.segmentTime, f.currentTime))
           /\ fetches' = fetches (-) SetToBag({f})
    /\ lastPreload' = NoPreload
    /\ UNCHANGED <<currentTime, preloads>>
    /\ NoThumbnailStep
    /\ NoAccelerationStep

\* variant: the rejection of one fetch abandons the whole preload
FetchFailAbandonsPreload ==
    /\ fetches # EmptyBag
    /\ fetches' = EmptyBag
    /\ lastPreload' = NoPreload
    /\ UNCHANGED <<currentTime, preloads>>
    /\ NoManagerStep
    /\ NoThumbnailStep
    /\ NoAccelerationStep

\* fetchSegment rejected: console.error
FetchFail ==
    /\ \E f \in BagToSet(fetches) : fetches' = fetches (-) SetToBag({f})
    /\ lastPreload' = NoPreload
    /\ UNCHANGED <<currentTime, preloads>>
    /\ NoManagerStep
    /\ NoThumbnailStep
    /\ NoAccelerationStep

(* ---------------------------------------------------------------------- *)
(* handleSeek(time) of the player: video.currentTime = time, clear(), and  *)
(* preloadAroundTime(time, src) on the store clear() has emptied           *)
(* ---------------------------------------------------------------------- *)
HandleSeek ==
    /\ preloads < MaxPreloads
    /\ \E time \in Positions :
           LET segmentsToLoad == calculateSegmentsToLoad(<<>>, maxSegmentsAhead, time)
               loading == {segmentsToLoad[i] : i \in 1 .. Len(segmentsToLoad)}
               issued == {[segmentTime |-> t, currentTime |-> time] :
                             t \in {x \in loading : x + segmentDuration <= MediaDuration}}
           IN /\ currentTime' = time
              /\ fetches' = fetches (+) SetToBag(issued)
              /\ preloads' = preloads + 1
              /\ lastPreload' = [by |-> "handleSeek", at |-> time, position |-> time,
                                 previous |-> maxSegmentsAhead, toLoad |-> segmentsToLoad]
    /\ segments' = <<>>
    /\ decodeQueue' = <<>>
    /\ currentMemoryUsage' = 0
    /\ frameDropCount' = 0
    /\ bufferUnderrunCount' = 0
    /\ evictLog' = NoEviction
    /\ lastDecode' = "none"
    /\ notified' = <<>>
    /\ UNCHANGED <<created, decoding, isDecoding, bufferPool, maxSegmentsAhead,
                   bufferHealthCallbacks, lastBufferHealthUpdate, now, lastResult>>
    /\ NoThumbnailStep
    /\ NoAccelerationStep

(* ---------------------------------------------------------------------- *)
(* The video element: playback or a seek moves video.currentTime           *)
(* ---------------------------------------------------------------------- *)
Playback ==
    /\ \E h \in Positions \ {currentTime} : currentTime' = h
    /\ lastPreload' = NoPreload
    /\ UNCHANGED <<fetches, preloads>>
    /\ NoManagerStep
    /\ NoThumbnailStep
    /\ NoAccelerationStep

(* ---------------------------------------------------------------------- *)
(* VideoThumbnailCache                                                     *)
(*                                                                         *)
(* A cache entry is [key, bitmap, stamp]: the bitmap is named after the    *)
(* generation that made it, the stamp grows with the insertion of the key. *)
(* A generation is a generateThumbnail promise; its owner is the call that *)
(* started it and awaits it, its sharers are the calls that returned it.   *)
(* ---------------------------------------------------------------------- *)
\* `${videoUrl}_${time}`
ThumbnailKey(videoUrl, time) == <<videoUrl, time>>

\* a cache that 99 getThumbnail calls, one after the other, have filled
FilledCache ==
    [i \in 1 .. maxCacheSize - 1 |->
        [key |-> ThumbnailKey("v", 100 + i), bitmap |-> 0, stamp |-> i]]

CacheHas(c, key) == \E i \in 1 .. Len(c) : c[i].key = key

\* variant: the cache is full only when it is over its size
AtCapacityStrict(c) == Len(c) > maxCacheSize

\* this.cache.size >= this.maxCacheSize
AtCapacity(c) == Len(c) >= maxCacheSize

\* variant: the key inserted last is deleted
DeleteNewestKey(c) == IF c = <<>> THEN c ELSE Front(c)

\* this.cache.delete(this.cache.keys().next().value)
DeleteFirstKey(c) == IF c = <<>> THEN c ELSE Tail(c)

NextStamp(c) == IF c = <<>> THEN 1 ELSE Last(c).stamp + 1

\* this.cache.set(key, thumbnail): a key already present keeps its place
CacheSet(c, key, bitmap) ==
    IF CacheHas(c, key)
    THEN [i \in 1 .. Len(c) |-> IF c[i].key = key THEN [c[i] EXCEPT !.bitmap = bitmap] ELSE c[i]]
    ELSE Append(c, [key |-> key, bitmap |-> bitmap, stamp |-> NextStamp(c)])

\* variant: the in-flight map is not consulted
getThumbnailUnshared(c, st, key) ==
    IF CacheHas(c, key)
    THEN [st EXCEPT !.callCount = @ + 1]
    ELSE [st EXCEPT !.callCount = @ + 1,
                    !.genCount = @ + 1,
                    !.started = @ + 1,
                    !.generating = {m \in @ : m.key # key}
                                       \cup {[key |-> key, gen |-> st.genCount + 1]},
                    !.pending = @ \cup {[gen |-> st.genCount + 1, key |-> key, sharers |-> 0]}]

\* getThumbnail up to its return or its await, on st = the maps and counters
getThumbnail(c, st, key) ==
    IF CacheHas(c, key)
    THEN [st EXCEPT !.callCount = @ + 1]
    ELSE IF \E m \in st.generating : m.key = key
    THEN LET g == (CHOOSE m \in st.generating : m.key = key).gen
         IN [st EXCEPT !.callCount = @ + 1,
                       !.pending = {IF q.gen = g THEN [q EXCEPT !.sharers = @ + 1] ELSE q :
                                       q \in @}]
    ELSE [st EXCEPT !.callCount = @ + 1,
                    !.genCount = @ + 1,
                    !.started = @ + 1,
                    !.generating = @ \cup {[key |-> key, gen |-> st.genCount + 1]},
                    !.pending = @ \cup {[gen |-> st.genCount + 1, key |-> key, sharers |-> 0]}]

ThumbnailState ==
    [generating |-> generating, pending |-> pending, genCount |-> genCount,
     callCount |-> callCount, started |-> 0]

GetThumbnail ==
    /\ callCount < MaxCalls
    /\ \E videoUrl \in VideoUrls : \E time \in ThumbnailTimes :
           LET key == ThumbnailKey(videoUrl, time)
               st == getThumbnail(cache, ThumbnailState, key)
           IN /\ generating' = st.generating
              /\ pending' = st.pending
              /\ genCount' = st.genCount
              /\ callCount' = st.callCount
              /\ thumbLog' = [op |-> "getThumbnail", key |-> key, started |-> st.started]
    /\ UNCHANGED cache
    /\ NoManagerStep
    /\ NoPreloadStep
    /\ NoAccelerationStep

\* times.forEach(time => this.getThumbnail(videoUrl, time))
RECURSIVE preloadThumbnails(_, _, _, _)
preloadThumbnails(c, st, videoUrl, times) ==
    IF times = <<>> THEN st
    ELSE preloadThumbnails(c, getThumbnail(c, st, ThumbnailKey(videoUrl, Head(times))),
                           videoUrl, Tail(times))

PreloadThumbnails ==
    /\ \E videoUrl \in VideoUrls : \E times \in PreloadTimes :
           LET st == preloadThumbnails(cache, ThumbnailState, videoUrl, times)
           IN /\ callCount + Len(times) <= MaxCalls
              /\ generating' = st.generating
              /\ pending' = st.pending
              /\ genCount' = st.genCount
              /\ callCount' = st.callCount
              /\ thumbLog' = [op |-> "preloadThumbnails", started |-> st.started]
    /\ UNCHANGED cache
    /\ NoManagerStep
    /\ NoPreloadStep
    /\ NoAccelerationStep

\* the promise of generation p settles; the owner goes on after its await
\* (store, or catch; finally) and each sharer's promise follows p's
GenerationSettles(p, ok) ==
    /\ p \in pending
    /\ cache' = IF ok
                THEN CacheSet(IF AtCapacity(cache) THEN DeleteFirstKey(cache) ELSE cache,
                              p.key, p.gen)
                ELSE cache
    /\ generating' = {m \in generating : m.key # p.key}
    /\ pending' = pending \ {p}
    /\ thumbLog' = [op |-> "settle", key |-> p.key, ok |-> ok,
                    ownerResult |-> IF ok THEN "bitmap" ELSE "null",
                    sharers |-> p.sharers,
                    sharerResult |-> IF ok THEN "bitmap" ELSE "rejected",
                    before |-> cache,
                    evicted |-> IF ok /\ AtCapacity(cache) /\ cache # <<>>
                                THEN SelectSeq(cache, LAMBDA e :
                                         ~CacheHas(DeleteFirstKey(cache), e.key))
                                ELSE <<>>]
    /\ UNCHANGED <<genCount, callCount>>
    /\ NoManagerStep
    /\ NoPreloadStep
    /\ NoAccelerationStep

\* createImageBitmap resolved
GenerationSucceeds == \E p \in pending : GenerationSettles(p, TRUE)

\* video.onerror, or createImageBitmap rejected
GenerationFails == \E p \in pending : GenerationSettles(p, FALSE)

ClearCache ==
    /\ cache' = <<>>
    /\ generating' = {}
    /\ thumbLog' = [op |-> "clearCache"]
    /\ UNCHANGED <<pending, genCount, callCount>>
    /\ NoManagerStep
    /\ NoPreloadStep
    /\ NoAccelerationStep

(* ====================================================================== *)
(* HardwareAcceleration (services/playback/hardware-acceleration.ts)       *)
(*                                                                         *)
(* The file declares the class twice. classDefinition says which of the    *)
(* two declarations the running code is; the two differ in                 *)
(* checkVideoDecoding and in transferToGPU.                                *)
(* ====================================================================== *)
ClassDefinitions == {1, 2}

\* !!adapter, !!gl, or the catch
checkGPUAcceleration(gpu) == gpu = "adapter"

\* first declaration: the value configure returns decides, a throw goes to
\* the outer catch
checkVideoDecodingFirst(decoder, hw, sw) ==
    IF decoder = "absent" THEN "software"
    ELSE IF hw = "throws" THEN "software"
    ELSE IF hw = "true" THEN "hardware"
    ELSE IF sw = "throws" THEN "software"
    ELSE IF sw = "true" THEN "software"
    ELSE "hybrid"

\* second declaration: only a throw of configure counts as a failure
checkVideoDecodingSecond(decoder, hw, sw) ==
    IF decoder = "absent" THEN "software"
    ELSE IF hw # "throws" THEN "hardware"
    ELSE IF sw # "throws" THEN "software"
    ELSE "hybrid"

checkVideoDecoding(def, decoder, hw, sw) ==
    IF def = 1 THEN checkVideoDecodingFirst(decoder, hw, sw)
    ELSE checkVideoDecodingSecond(decoder, hw, sw)

(* ---------------------------------------------------------------------- *)
(* detectCapabilities()                                                    *)
(*                                                                         *)
(* The call up to its first await: the test of this.capabilities, then     *)
(* the probes are started. this.capabilities is assigned when the last     *)
(* probe has settled.                                                      *)
(* ---------------------------------------------------------------------- *)
DetectCapabilities ==
    /\ detectCalls < MaxDetects
    /\ IF capabilities # NoCapabilities
       THEN /\ acceleration' = [acceleration EXCEPT !.detectCalls = detectCalls + 1]
            /\ accelLog' = [op |-> "cached", result |-> capabilities]
       ELSE /\ acceleration' = [acceleration EXCEPT !.detectCalls = detectCalls + 1,
                                                     !.detecting = detecting + 1,
                                                     !.probeRuns = probeRuns + 1]
            /\ accelLog' = [op |-> "probing"]
    /\ NoManagerStep
    /\ NoPreloadStep
    /\ NoThumbnailStep

\* the probes of one call have settled: the rest of detectCapabilities
ProbesSettle ==
    /\ detecting > 0
    /\ \E gpu \in GpuProbes, decoder \in DecoderProbes,
          hw \in ConfigureOutcomes, sw \in ConfigureOutcomes :
           LET result == [gpuAcceleration |-> checkGPUAcceleration(gpu),
                          videoDecoding |-> checkVideoDecoding(classDefinition, decoder, hw, sw)]
           IN /\ acceleration' = [acceleration EXCEPT !.capabilities = result,
                                                       !.detecting = detecting - 1]
              /\ accelLog' = [op |-> "detected", gpu |-> gpu, decoder |-> decoder,
                              hardware |-> hw, software |-> sw, result |-> result]
    /\ NoManagerStep
    /\ NoPreloadStep
    /\ NoThumbnailStep

(* ---------------------------------------------------------------------- *)
(* Decoded frames                                                          *)
(*                                                                         *)
(* A frame is the number of its delivery: frame n is the n-th frame any    *)
(* decoder delivered, and closes[n] counts the close() calls made on it.   *)
(* ---------------------------------------------------------------------- *)
\* a pool that earlier deliveries filled up to one below the limit
FilledFramePool == [i \in 1 .. maxFramePool - 1 |-> i]

CloseFrame(c, f) == [c EXCEPT ![f] = c[f] + 1]

\* variant: the pool is trimmed one frame later
PoolOverLimitLate(pool) == Len(pool) > maxFramePool + 1

\* this.framePool.length > 30
PoolOverLimit(pool) == Len(pool) > maxFramePool

\* handleDecodedFrame(frame): push, trim the pool, start transferToGPU(frame).
\* transferToGPU returns at once when the platform lacks the interface it
\* needs (navigator.gpu in the first declaration, createImageBitmap in the
\* second), and is suspended on its first await otherwise.
HandleDecodedFrame ==
    /\ Len(closes) < Len(FilledFramePool) + MaxFrames
    /\ \E available \in BOOLEAN :
           LET frame == Len(closes) + 1
               pushed == Append(framePool, frame)
               delivered == Append(closes, 0)
           IN /\ acceleration' =
                     [acceleration EXCEPT
                         !.framePool = IF PoolOverLimit(pushed) THEN Tail(pushed) ELSE pushed,
                         !.closes = IF PoolOverLimit(pushed)
                                    THEN CloseFrame(delivered, Head(pushed))
                                    ELSE delivered,
                         !.transfers = IF available THEN transfers \cup {frame} ELSE transfers]
              /\ accelLog' = [op |-> "handleDecodedFrame", frame |-> frame]
    /\ NoManagerStep
    /\ NoPreloadStep
    /\ NoThumbnailStep

\* transferToGPU resumed: the first declaration creates a texture, imports
\* the frame into it (texture in the log), pushes it and trims the texture
\* pool, or returns without an adapter, or logs the failure; the second
\* drops the bitmap, or logs the failure
TransferSettles ==
    /\ \E frame \in transfers : \E ok \in BOOLEAN :
           /\ acceleration' =
                  [acceleration EXCEPT
                      !.transfers = transfers \ {frame},
                      !.texturePool = IF classDefinition = 1 /\ ok /\ texturePool < maxTexturePool
                                      THEN texturePool + 1
                                      ELSE texturePool]
           /\ accelLog' = [op |-> "transferred", frame |-> frame,
                           texture |-> classDefinition = 1 /\ ok]
    /\ NoManagerStep
    /\ NoPreloadStep
    /\ NoThumbnailStep

\* getFrame(): this.framePool.shift() || null
GetFrame ==
    /\ framePool # <<>>
    /\ Cardinality(held) < MaxHeld
    /\ acceleration' = [acceleration EXCEPT !.framePool = Tail(framePool),
                                              !.held = held \cup {Head(framePool)}]
    /\ accelLog' = [op |-> "getFrame", frame |-> Head(framePool)]
    /\ NoManagerStep
    /\ NoPreloadStep
    /\ NoThumbnailStep

\* the consumer is done with a frame it got from getFrame
ConsumerCloses ==
    /\ \E frame \in held :
           /\ acceleration' = [acceleration EXCEPT !.held = held \ {frame},
                                                     !.closes = CloseFrame(closes, frame)]
           /\ accelLog' = [op |-> "consumed", frame |-> frame]
    /\ NoManagerStep
    /\ NoPreloadStep
    /\ NoThumbnailStep

RECURSIVE CloseAll(_, _)
CloseAll(c, pool) ==
    IF pool = <<>> THEN c ELSE CloseAll(CloseFrame(c, Head(pool)), Tail(pool))

\* cleanup(): close the pooled frames, destroy the textures
Cleanup ==
    /\ framePool # <<>>
    /\ acceleration' = [acceleration EXCEPT !.closes = CloseAll(closes, framePool),
                                              !.framePool = <<>>,
                                              !.texturePool = 0]
    /\ accelLog' = [op |-> "cleanup"]
    /\ NoManagerStep
    /\ NoPreloadStep
    /\ NoThumbnailStep

(* ---------------------------------------------------------------------- *)
(* VideoBufferManager.storeDecodedFrame(segmentId, frame)                  *)
(* ---------------------------------------------------------------------- *)
\* the output callback of the decoder of decodeSegment: createImageBitmap is
\* started when the platform has it, and nothing is done otherwise
StoreDecodedFrame ==
    /\ Len(closes) < Len(FilledFramePool) + MaxFrames
    /\ \E available \in BOOLEAN :
           LET frame == Len(closes) + 1
           IN /\ acceleration' =
                     [acceleration EXCEPT
                         !.closes = Append(closes, 0),
                         !.bitmapJobs = IF available THEN bitmapJobs \cup {frame}
                                        ELSE bitmapJobs]
              /\ accelLog' = [op |-> "storeDecodedFrame", frame |-> frame,
                              available |-> available]
    /\ NoManagerStep
    /\ NoPreloadStep
    /\ NoThumbnailStep

\* createImageBitmap settled: the then-callback stores the bitmap and closes
\* the frame; a rejection has no handler
BitmapSettles ==
    /\ \E frame \in bitmapJobs : \E ok \in BOOLEAN :
           /\ acceleration' =
                  [acceleration EXCEPT
                      !.bitmapJobs = bitmapJobs \ {frame},
                      !.closes = IF ok THEN CloseFrame(closes, frame) ELSE closes]
           /\ accelLog' = [op |-> "bitmap", frame |-> frame, ok |-> ok]
    /\ NoManagerStep
    /\ NoPreloadStep
    /\ NoThumbnailStep

\* the store and the decode worker
Next ==
    \/ AddSegment
    \/ DecodeSucceed
    \/ DecodeFail
    \/ Clear
    \/ Tick

Spec == Init /\ [][Next]_vars

\* the same with health subscribers coming and going
NextHealth ==
    \/ AddSegment
    \/ DecodeSucceed
    \/ DecodeFail
    \/ Clear
    \/ Tick
    \/ OnBufferHealth
    \/ Unsubscribe

SpecHealth == Init /\ [][NextHealth]_vars

\* The event loop runs every continuation that is ready: a decode that was
\* started settles, one way or the other, and its loop is resumed.
NextDecode ==
    \/ AddSegment
    \/ DecodeSucceed
    \/ DecodeFail
    \/ Clear

SpecLive == Init /\ [][NextDecode]_vars /\ WF_vars(DecodeSucceed \/ DecodeFail)

\* the player preloading around its playback position
NextPreload ==
    \/ Playback
    \/ PreloadAroundTime
    \/ AdaptiveBuffering
    \/ OnBufferUnderrun
    \/ FetchSucceed
    \/ FetchFail
    \/ Clear

SpecPreload == Init /\ [][NextPreload]_vars

\* the thumbnail cache, empty or filled by earlier calls
InitThumbnail ==
    /\ ManagerInit
    /\ PlayerInit
    /\ AccelerationInit
    /\ cache \in {<<>>, FilledCache}
    /\ generating = {}
    /\ pending = {}
    /\ genCount = 0
    /\ callCount = 0
    /\ thumbLog = NoThumbnail

NextThumbnail ==
    \/ GetThumbnail
    \/ PreloadThumbnails
    \/ GenerationSucceeds
    \/ GenerationFails

SpecThumbnail == InitThumbnail /\ [][NextThumbnail]_vars

\* the same with clearCache
NextThumbnailClear ==
    \/ GetThumbnail
    \/ PreloadThumbnails
    \/ GenerationSucceeds
    \/ GenerationFails
    \/ ClearCache

SpecThumbnailClear == InitThumbnail /\ [][NextThumbnailClear]_vars

\* fetched segments going through the decode worker
NextPipeline ==
    \/ PreloadAroundTime
    \/ OnBufferUnderrun
    \/ FetchSucceed
    \/ FetchFail
    \/ DecodeSucceed
    \/ DecodeFail

SpecPipeline == Init /\ [][NextPipeline]_vars

\* health subscribers whose callbacks unsubscribe, on a clock with short steps
NextObservers ==
    \/ Subscribe
    \/ Unsubscribe
    \/ PreloadAroundTime
    \/ FetchSucceed
    \/ DecodeSucceed
    \/ TickShort

SpecObservers == Init /\ [][NextObservers]_vars

\* seeks of the player, with the preloads and fetches around them; the
\* playback position changes by seeks only
NextSeek ==
    \/ HandleSeek
    \/ PreloadAroundTime
    \/ FetchSucceed
    \/ FetchFail
    \/ DecodeSucceed

SpecSeek == Init /\ [][NextSeek]_vars

\* the operations that set the preload horizon, and clear()
NextHorizon ==
    \/ AdaptiveBuffering
    \/ OnFrameDrop
    \/ OnBufferUnderrun
    \/ Clear

SpecHorizon == Init /\ [][NextHorizon]_vars

\* the time updates of the player, with playback and the fetches
NextTimeUpdate ==
    \/ HandleTimeUpdate
    \/ Playback
    \/ FetchSucceed
    \/ FetchFail
    \/ DecodeSucceed

SpecTimeUpdate == Init /\ [][NextTimeUpdate]_vars

\* capability detection, under either declaration of the class
InitDetect ==
    /\ ManagerInit
    /\ PlayerInit
    /\ ThumbnailInit
    /\ \E def \in ClassDefinitions : acceleration = Constructed(def, <<>>, <<>>)
    /\ accelLog = NoAcceleration

NextDetect ==
    \/ DetectCapabilities
    \/ ProbesSettle

SpecDetect == InitDetect /\ [][NextDetect]_vars

\* the decoded frames, after earlier deliveries: the frame pool is nearly
\* full, or a cleanup has emptied it
InitFrames ==
    /\ ManagerInit
    /\ PlayerInit
    /\ ThumbnailInit
    /\ \E def \in ClassDefinitions :
           \/ acceleration = Constructed(def, <<>>, [i \in 1 .. Len(FilledFramePool) |-> 1])
           \/ acceleration = Constructed(def, FilledFramePool,
                                         [i \in 1 .. Len(FilledFramePool) |-> 0])
    /\ accelLog = NoAcceleration

\* the frame pool of HardwareAcceleration
NextFramePool ==
    \/ HandleDecodedFrame
    \/ TransferSettles
    \/ GetFrame
    \/ ConsumerCloses
    \/ Cleanup

SpecFramePool == InitFrames /\ [][NextFramePool]_vars

\* the same with the frames the decoder of the buffer manager delivers
NextFrames ==
    \/ HandleDecodedFrame
    \/ TransferSettles
    \/ GetFrame
    \/ ConsumerCloses
    \/ Cleanup
    \/ StoreDecodedFrame
    \/ BitmapSettles

SpecFrames == InitFrames /\ [][NextFrames]_vars

(* ====================================================================== *)
(* Properties                                                              *)
(* ====================================================================== *)
\* [start, end)
Covers(seg, t) == seg.startTime <= t /\ t < seg.endTime

\* older than the age threshold at the time the eviction ran
OlderThanEvictAge(seg) == evictLog.at - seg.startTime * 1000 > evictAgeMs

\* the segments still in the Map when the i-th removal of the run is made
ResidentAtRemoval(i) ==
    Range(evictLog.kept) \cup
    {evictLog.removed[j] : j \in (i + 1) .. Len(evictLog.removed)}

\* currentMemoryUsage when the i-th removal of the run is made
RECURSIVE UsageAtRemoval(_)
UsageAtRemoval(i) ==
    IF i = 1 THEN evictLog.memBefore
    ELSE UsageAtRemoval(i - 1) - evictLog.removed[i - 1].size

BelowTarget(mem) == mem * 10 < maxBufferSize * 8

\* the bytes of the segments of a sequence
RECURSIVE ResidentBytes(_)
ResidentBytes(m) == IF m = <<>> THEN 0 ELSE Head(m).size + ResidentBytes(Tail(m))

\* the eviction ran on a store whose counter was the resident total and
\* whose segments all have a payload
EvictionOnSoundStore ==
    /\ evictLog.ran
    /\ evictLog.memBefore = ResidentBytes(evictLog.kept) + ResidentBytes(evictLog.removed)
    /\ \A s \in Range(evictLog.kept) \cup Range(evictLog.removed) : s.size > 0

(* ---------------------------------------------------------------------- *)
\* C1: once addSegment has returned, the total bytes of the resident
\* segments, reported as memory usage, are never above maxBufferSize.
\* (Stated for the states in which the counter is the resident total, so
\* that a counter that has drifted from it is not what refutes it.)
MemoryWithinCap ==
    currentMemoryUsage = ResidentBytes(segments) => currentMemoryUsage <= maxBufferSize

(* ---------------------------------------------------------------------- *)
\* C2 (as stated): eviction never removes a segment covering the playback
\* time while any resident segment has a lower priority.
EvictKeepsPlayingSegment ==
    \A t \in PlaybackTimes : \A i \in 1 .. Len(evictLog.removed) :
        Covers(evictLog.removed[i], t) =>
            \A k \in ResidentAtRemoval(i) : k.priority >= evictLog.removed[i].priority

\* C2 (amended): eviction never removes a segment covering the playback time
\* while a resident segment that is older than the eviction age has a lower
\* priority.
EvictKeepsPlayingSegmentAmongAged ==
    \A t \in PlaybackTimes : \A i \in 1 .. Len(evictLog.removed) :
        Covers(evictLog.removed[i], t) =>
            \A k \in ResidentAtRemoval(i) :
                OlderThanEvictAge(k) => k.priority >= evictLog.removed[i].priority

\* an eviction removed a segment covering a playback time while another
\* segment older than the eviction age was still resident
EvictedPlayingSegment ==
    \E t \in PlaybackTimes : \E i \in 1 .. Len(evictLog.removed) :
        /\ Covers(evictLog.removed[i], t)
        /\ \E k \in ResidentAtRemoval(i) : OlderThanEvictAge(k)

(* ---------------------------------------------------------------------- *)
\* C3: an eviction run removes segments in ascending priority order, and no
\* segment is removed while an eligible segment (older than the age
\* threshold, below the priority cutoff) of strictly lower priority is
\* still resident; with priorities 10, 7 and 4 resident the priority-4
\* segment is the first removed.
EvictsAscendingPriority ==
    /\ \A i, j \in 1 .. Len(evictLog.removed) :
           i < j => evictLog.removed[i].priority <= evictLog.removed[j].priority
    /\ \A i \in 1 .. Len(evictLog.removed) : \A k \in ResidentAtRemoval(i) :
           (OlderThanEvictAge(k) /\ k.priority < evictPriorityCutoff)
               => k.priority >= evictLog.removed[i].priority
    /\ ({s.priority : s \in Range(evictLog.removed) \cup Range(evictLog.kept)} = {10, 7, 4}
           /\ evictLog.removed # <<>>) => evictLog.removed[1].priority = 4

\* segments of priority 10, 7 and 4 were resident and the eviction removed
\* the priority-4 one first
EvictedLowestOfTenSevenFour ==
    /\ evictLog.ran
    /\ {s.priority : s \in Range(evictLog.removed) \cup Range(evictLog.kept)} = {10, 7, 4}
    /\ evictLog.removed # <<>>
    /\ evictLog.removed[1].priority = 4

(* ---------------------------------------------------------------------- *)
\* C4: when an eviction run ends, usage is below 80% of the cap or no
\* candidate is resident any more, and no candidate was removed when usage
\* was already below 80%.
\* (Stated for eviction runs on a sound store, so that neither a drifted
\* counter nor an empty segment is what refutes it.)
EvictsUntilTarget ==
    EvictionOnSoundStore =>
        /\ \/ BelowTarget(evictLog.memAfter)
           \/ \A k \in Range(evictLog.kept) :
                  ~(OlderThanEvictAge(k) /\ k.priority < evictPriorityCutoff)
        /\ \A i \in 1 .. Len(evictLog.removed) : ~BelowTarget(UsageAtRemoval(i))

(* ---------------------------------------------------------------------- *)
\* C5: eviction never removes a segment whose decode is in flight.
\* (Stated for eviction runs on a sound store, as C4.)
EvictionSparesInFlight ==
    EvictionOnSoundStore =>
        \A i \in 1 .. Len(evictLog.removed) :
            evictLog.removed[i].oid \notin {s.oid : s \in evictLog.inflight}

(* ---------------------------------------------------------------------- *)
\* C6: addSegment with an empty payload fails with InvalidInput and leaves
\* the store, the memory counter and the decode queue unchanged.
EmptyPayloadRejected ==
    [][\A in \in SegmentInputs :
           (in[2] = 0 /\ addSegment(in[1], in[1] + segmentDuration, in[2], in[3]))
               => /\ lastResult' = "InvalidInput"
                  /\ UNCHANGED <<segments, currentMemoryUsage, decodeQueue>>]_vars

(* ---------------------------------------------------------------------- *)
\* C7: at most one decode is in flight at any time, and when addSegment
\* returns the segment it added is still waiting for its decode (in flight
\* or queued), not decoded.
OneDecodeInFlight ==
    [][/\ Cardinality(decoding') <= 1
       /\ created' # created =>
              \A s \in Range(segments') :
                  s.oid = created' =>
                      /\ ~s.isDecoded
                      /\ s \in decoding' \cup Range(decodeQueue')]_vars

\* a decode is in flight while other segments wait in the queue
DecodeInFlightWithBacklog ==
    /\ isDecoding
    /\ Cardinality(decoding) = 1
    /\ Len(decodeQueue) >= 2

(* ---------------------------------------------------------------------- *)
\* C8: the segment the decode worker takes from the queue has the highest
\* priority of the queued segments, and among equal priorities it is the
\* one added earliest.
DecodeTakesHighestPriority ==
    [][\A s \in decoding' \ decoding : \A q \in Range(decodeQueue') :
           \/ q.priority < s.priority
           \/ (q.priority = s.priority /\ q.oid > s.oid)]_vars

\* the segment being decoded was added after one that still waits
PriorityBeatsArrival ==
    \E s \in decoding : \E q \in Range(decodeQueue) :
        s.oid > q.oid /\ s.priority > q.priority

(* ---------------------------------------------------------------------- *)
\* C9: a failed decode does not stop the worker: it takes the next queued
\* segment at once, and from a failure on the queue eventually is empty
\* with the worker idle.
DecodeFailureKeepsDraining ==
    /\ [][(lastDecode' = "failed" /\ decodeQueue # <<>>)
             => (isDecoding' /\ decoding' = {Head(decodeQueue)}
                 /\ decodeQueue' = Tail(decodeQueue))]_vars
    /\ (lastDecode = "failed") ~> (decodeQueue = <<>> /\ ~isDecoding)

\* a decode has just failed and the worker is decoding the next segment
\* with more still queued
WorkerContinuesAfterFailure ==
    /\ lastDecode = "failed"
    /\ decoding # {}
    /\ decodeQueue # <<>>

(* ---------------------------------------------------------------------- *)
\* C10: when a decode fails, every subscriber registered with
\* onBufferHealth is notified in that step.
FailureNotifiesSubscribers ==
    lastDecode = "failed" =>
        \A cb \in Range(bufferHealthCallbacks) :
            \E i \in 1 .. Len(notified) : notified[i][1] = cb

(* ---------------------------------------------------------------------- *)
\* C11: right after clear(), getMetrics() reports no segment and no memory
\* in use, whatever was resident, queued or being decoded before.
ClearEmptiesMetrics ==
    [][Clear => /\ getMetrics'.bufferHealth.totalSegments = 0
                /\ getMetrics'.bufferHealth.memoryUsage = 0
                /\ getMetrics'.memoryUsage = 0]_vars

\* the store was cleared while a decode was in flight
ClearedWhileDecoding ==
    /\ created >= 2
    /\ segments = <<>>
    /\ getMetrics.memoryUsage = 0
    /\ decoding # {}

(* ---------------------------------------------------------------------- *)
\* C12: clear() empties the decode queue and leaves the decode in flight
\* alone; the worker only ever takes a segment that is queued or just
\* added, only the segment in flight becomes decoded, and the completion
\* of a decode whose segment is no longer resident leaves the counts the
\* store reports as they were (zero after a clear with nothing added).
Oids(S) == {s.oid : s \in S}

ClearDiscardsPendingDecodes ==
    [][/\ Clear => (decodeQueue' = <<>> /\ decoding' = decoding)
       /\ \A s \in decoding' \ decoding :
              s \in Range(decodeQueue) \/ s.oid = created'
       /\ \A s \in Range(segments') :
              (s.isDecoded /\ s.oid \in Oids({r \in Range(segments) : ~r.isDecoded}))
                  => s.oid \in Oids(decoding)
       /\ \A s \in decoding \ decoding' :
              s.oid \notin Oids(Range(segments))
                  => Health(segments', currentMemoryUsage')
                         = Health(segments, currentMemoryUsage)]_vars

\* a decode that was in flight when the store was cleared has completed
\* successfully and the store is still empty
DecodeSettledAfterClear ==
    /\ created >= 2
    /\ lastDecode = "ok"
    /\ segments = <<>>
    /\ Health(segments, currentMemoryUsage).decodedSegments = 0
    /\ decoding = {}

(* ---------------------------------------------------------------------- *)
\* C13: adaptiveBuffering(speed, t) sets the horizon to 15 segments when
\* speed < 1, to 10 when 1 <= speed < 5 and to 5 when speed >= 5 (0.5 gives
\* 15, 3 gives 10, 8 gives 5), whatever the horizon was before.
AdaptiveSetsHorizon ==
    [][\A speed \in NetworkSpeeds :
           adaptiveBuffering(speed, currentTime) =>
               /\ speed < 10 => maxSegmentsAhead' = 15
               /\ (10 <= speed /\ speed < 50) => maxSegmentsAhead' = 10
               /\ speed >= 50 => maxSegmentsAhead' = 5
               /\ speed = 5 => maxSegmentsAhead' = 15
               /\ speed = 30 => maxSegmentsAhead' = 10
               /\ speed = 80 => maxSegmentsAhead' = 5]_vars

\* adaptiveBuffering has just widened the narrowest horizon to the widest
HorizonWidenedFromFiveToFifteen ==
    /\ lastPreload.by = "adaptiveBuffering"
    /\ lastPreload.previous = 5
    /\ maxSegmentsAhead = 15
    /\ Len(lastPreload.toLoad) = 15

(* ---------------------------------------------------------------------- *)
\* C14: onBufferUnderrun() adds one to the underrun counter and preloads at
\* the current playback position: every segment it loads is one a normal
\* preloadAroundTime at that position would load, with a priority at least
\* that of the normal preload.
UnderrunPreloadsAtPosition ==
    [][lastPreload'.by = "onBufferUnderrun" =>
           /\ bufferUnderrunCount' = bufferUnderrunCount + 1
           /\ \A i \in 1 .. Len(lastPreload'.toLoad) :
                  LET t == lastPreload'.toLoad[i]
                  IN /\ t \in Range(calculateSegmentsToLoad(segments, maxSegmentsAhead,
                                                             lastPreload'.position))
                     /\ calculatePriority(t, lastPreload'.at)
                            >= calculatePriority(t, lastPreload'.position)]_vars

(* ---------------------------------------------------------------------- *)
\* C15: the segments a preload sets out to load are exactly the start times
\* floor(t) + 2 * i, 0 <= i < horizon, whose segment is not resident.
IsResident(segmentTime) ==
    \E s \in Range(segments) :
        s.startTime = segmentTime /\ s.endTime = segmentTime + segmentDuration

PreloadSkipsResident ==
    lastPreload.by # "none" =>
        lastPreload.toLoad =
            SelectSeq([i \in 1 .. maxSegmentsAhead |-> (lastPreload.at \div 2) + 2 * (i - 1)],
                      LAMBDA segmentTime : ~IsResident(segmentTime))

(* ---------------------------------------------------------------------- *)
\* C16: the priority of a preloaded segment is a function of the distance
\* d between its start and the playback time of its preload alone: 10 when
\* d < 2, 7 when 2 <= d < 5, 4 when 5 <= d < 10, 1 otherwise. It holds for
\* every segment a preload sets out to load and for every segment added
\* when its fetch completes.
PriorityOfDistance(d2) ==
    IF d2 < 2 * 2 THEN 10
    ELSE IF 2 * 2 <= d2 /\ d2 < 2 * 5 THEN 7
    ELSE IF 2 * 5 <= d2 /\ d2 < 2 * 10 THEN 4
    ELSE 1

PreloadPriorityByDistance ==
    [][/\ \A i \in 1 .. Len(lastPreload'.toLoad) :
              calculatePriority(lastPreload'.toLoad[i], lastPreload'.at)
                  = PriorityOfDistance(Abs(2 * lastPreload'.toLoad[i] - lastPreload'.at))
       /\ (created' = created + 1 /\ fetches' # fetches) =>
              \E f \in BagToSet(fetches) :
                  /\ fetches' = fetches (-) SetToBag({f})
                  /\ \E s \in Range(segments') :
                         /\ s.oid = created'
                         /\ s.startTime = f.segmentTime
                         /\ s.priority =
                                PriorityOfDistance(Abs(2 * f.segmentTime - f.currentTime))]_vars

\* a preload has set out to load segments of all four distance classes
\* while a fetched segment two seconds or more from its playback time is
\* resident
PreloadCoversAllDistanceClasses ==
    /\ lastPreload.by # "none"
    /\ {calculatePriority(lastPreload.toLoad[i], lastPreload.at) :
            i \in 1 .. Len(lastPreload.toLoad)} = {10, 7, 4, 1}
    /\ \E s \in Range(segments) : s.priority = 7

(* ---------------------------------------------------------------------- *)
\* C17: getThumbnail calls for one key made before its generation settles
\* share one generation: no key ever has two generations pending, a call
\* for a key that is neither resident nor being generated starts exactly
\* one, a call for a key being generated starts none and waits for the
\* pending one, and a call for a resident key starts none.
GenerationsOf(S, key) == {p \in S : p.key = key}

OneGenerationPerKey ==
    [][/\ \A p \in pending' : Cardinality(GenerationsOf(pending', p.key)) = 1
       /\ thumbLog'.op = "getThumbnail" =>
              LET key == thumbLog'.key
              IN /\ CacheHas(cache, key) =>
                        (genCount' = genCount /\ pending' = pending)
                 /\ (~CacheHas(cache, key) /\ GenerationsOf(pending, key) # {}) =>
                        /\ genCount' = genCount
                        /\ \E p \in GenerationsOf(pending, key) :
                               \E q \in GenerationsOf(pending', key) :
                                   q.gen = p.gen /\ q.sharers = p.sharers + 1
                 /\ (~CacheHas(cache, key) /\ GenerationsOf(pending, key) = {}) =>
                        /\ genCount' = genCount + 1
                        /\ Cardinality(GenerationsOf(pending', key)) = 1]_vars

\* three calls for one key wait for the one generation that was started
ThreeCallsShareOneGeneration ==
    /\ callCount = 3
    /\ genCount = 1
    /\ \E p \in pending : p.sharers = 2

(* ---------------------------------------------------------------------- *)
\* C18: the thumbnail cache never holds more than maxCacheSize entries.
CacheWithinCapacity == Len(cache) <= maxCacheSize

\* a thumbnail was stored into a full cache, which is full again
CacheFullAfterStore ==
    /\ thumbLog.op = "settle"
    /\ thumbLog.ok
    /\ Len(thumbLog.before) = maxCacheSize
    /\ Len(cache) = maxCacheSize

(* ---------------------------------------------------------------------- *)
\* C19: a thumbnail stored into a full cache evicts exactly one entry, the
\* one inserted earliest of those resident, and every other entry stays.
StoreEvictsEarliestInserted ==
    (thumbLog.op = "settle" /\ thumbLog.ok /\ Len(thumbLog.before) >= maxCacheSize) =>
        /\ Len(thumbLog.evicted) = 1
        /\ \A e \in Range(thumbLog.before) : thumbLog.evicted[1].stamp <= e.stamp
        /\ {e.key : e \in Range(cache)} =
               ({e.key : e \in Range(thumbLog.before)} \ {thumbLog.evicted[1].key})
                   \cup {thumbLog.key}

\* the store of a new key has evicted the first entry of a full cache
EvictedFirstInsertedEntry ==
    /\ thumbLog.op = "settle"
    /\ thumbLog.ok
    /\ Len(thumbLog.before) >= maxCacheSize
    /\ thumbLog.evicted = <<thumbLog.before[1]>>
    /\ ~CacheHas(thumbLog.before, thumbLog.key)
    /\ Last(cache).key = thumbLog.key

(* ---------------------------------------------------------------------- *)
\* C20: when a generation fails, the call that started it and every call
\* sharing it get null, none a rejection, and the key is no longer marked
\* as being generated.
FailureGivesNullToAll ==
    (thumbLog.op = "settle" /\ ~thumbLog.ok) =>
        /\ thumbLog.ownerResult = "null"
        /\ thumbLog.sharers > 0 => thumbLog.sharerResult = "null"
        /\ \A m \in generating : m.key # thumbLog.key

(* ---------------------------------------------------------------------- *)
(* C21  Detection resolves to the conservative fallback: when neither the  *)
(* hardware nor the software configuration succeeds the decode path of the *)
(* result is 'software', and when the GPU check fails its GPU acceleration *)
(* is false.                                                               *)
(* ---------------------------------------------------------------------- *)
DetectionFallsBack ==
    accelLog.op = "detected" =>
        /\ (\/ accelLog.decoder = "absent"
            \/ accelLog.hardware # "true" /\ accelLog.software # "true")
               => accelLog.result.videoDecoding = "software"
        /\ accelLog.gpu # "adapter" => ~accelLog.result.gpuAcceleration

(* ---------------------------------------------------------------------- *)
(* C22  When the hardware-preferred configuration fails (configure returns *)
(* false or throws) and the software one succeeds, detection completes     *)
(* with decode path 'software'.                                            *)
(* ---------------------------------------------------------------------- *)
SoftwareAfterHardwareFailure ==
    (/\ accelLog.op = "detected"
     /\ accelLog.decoder = "present"
     /\ accelLog.hardware # "true"
     /\ accelLog.software = "true")
        => accelLog.result.videoDecoding = "software"

(* ---------------------------------------------------------------------- *)
(* C23  Capabilities are detected once: whatever the number of             *)
(* detectCapabilities calls, also when one is made while another is still  *)
(* pending, the probes are run at most once.                               *)
(* ---------------------------------------------------------------------- *)
DetectedOnce == probeRuns <= 1

FramesReleased ==
    \A f \in 1 .. Len(closes) :
        /\ closes[f] <= 1
        /\ \/ closes[f] = 1
           \/ f \in Range(framePool)
           \/ f \in held
           \/ f \in bitmapJobs

(* ---------------------------------------------------------------------- *)
(* C26  getSegment(t) returns a resident decoded segment whose half-open   *)
(* range start <= t < end contains t, and returns null exactly when no     *)
(* resident decoded segment covers t in that sense.                        *)
(* ---------------------------------------------------------------------- *)
GetSegmentHalfOpen ==
    \A t \in PlaybackTimes :
        LET r == getSegment(segments, t)
        IN IF r # <<>>
           THEN /\ r[1] \in Range(segments)
                /\ r[1].isDecoded
                /\ r[1].startTime <= t
                /\ t < r[1].endTime
           ELSE ~ \E seg \in Range(segments) :
                      seg.isDecoded /\ seg.startTime <= t /\ t < seg.endTime

(* ---------------------------------------------------------------------- *)
(* C27  A broadcast during which a callback unsubscribes itself or another *)
(* delivers the snapshot exactly once to every callback subscribed before  *)
(* and after it, and delivers nothing to a callback after the call that    *)
(* unsubscribed it.                                                        *)
(* ---------------------------------------------------------------------- *)
DeliveriesTo(deliveries, cb) ==
    {i \in 1 .. Len(deliveries) : deliveries[i][1] = cb}

BroadcastReachesSubscribers ==
    [][lastBufferHealthUpdate' # lastBufferHealthUpdate =>
          /\ \A cb \in Range(bufferHealthCallbacks) \cap Range(bufferHealthCallbacks') :
                 Cardinality(DeliveriesTo(notified', cb)) = 1
          /\ \A i \in 1 .. Len(notified') :
                 \A cb \in UnsubscribedBy(notified'[i][1]) :
                     \A j \in DeliveriesTo(notified', cb) : j <= i]_vars

(* ---------------------------------------------------------------------- *)
(* C28  After a preloadAroundTime call at time t, the priority of every    *)
(* resident segment is the priority function of its start time and t.      *)
(* ---------------------------------------------------------------------- *)
PrioritiesFollowReference ==
    lastPreload.by # "none" =>
        \A seg \in Range(segments) :
            seg.priority = calculatePriority(seg.startTime, lastPreload.at)

(* ---------------------------------------------------------------------- *)
(* C29  Failed is terminal: a resident segment whose decode failed (not    *)
(* decoded, neither queued nor being decoded) is not queued, being decoded *)
(* or decoded under the same key after any later step.                     *)
(* ---------------------------------------------------------------------- *)
Failed(seg) ==
    /\ ~seg.isDecoded
    /\ seg.oid \notin Oids(Range(decodeQueue))
    /\ seg.oid \notin Oids(decoding)

FailedIsTerminal ==
    [][\A seg \in Range(segments) :
           Failed(seg) =>
               \A later \in Range(decodeQueue') \cup decoding' \cup Range(Decoded(segments')) :
                   SegmentId(later) # SegmentId(seg)]_vars

(* ---------------------------------------------------------------------- *)
(* C30  A step that delivers a health snapshot comes at least 100 ms after *)
(* the previous health update, and records its own time as the last one.   *)
(* ---------------------------------------------------------------------- *)
HealthBroadcastsThrottled ==
    [][notified' # <<>> =>
          /\ now' - lastBufferHealthUpdate >= healthThrottleMs
          /\ lastBufferHealthUpdate' = now']_vars

\* a snapshot delivered 100 ms after the start, when an earlier addSegment
\* had already made a health update: the two are exactly the interval apart
SecondBroadcastAfterInterval ==
    /\ notified # <<>>
    /\ now = NowInit + healthThrottleMs
    /\ lastBufferHealthUpdate = now
    /\ (created >= 2 \/ lastDecode # "none")

TextureImportOnlyWithGpuSupport ==
    accelLog.op = "transferred" /\ accelLog.texture =>
        /\ capabilities # NoCapabilities
        /\ capabilities.gpuAcceleration

(* ---------------------------------------------------------------------- *)
(* C35  No use after release: the frame a resumed transfer imports has not *)
(* been closed, and no frame of the pool is closed.                        *)
(* ---------------------------------------------------------------------- *)
\* no handler leaves a closed frame in the pool
PooledFramesOpen == \A i \in 1 .. Len(framePool) : closes[framePool[i]] = 0

NoUseAfterRelease ==
    /\ accelLog.op = "transferred" /\ accelLog.texture => closes[accelLog.frame] = 0
    /\ PooledFramesOpen

(* ---------------------------------------------------------------------- *)
(* C33  The thumbnail cache is least-recently-used: a cache hit counts as  *)
(* a use, so the store that follows a hit on an entry of a cache holding   *)
(* other entries does not evict the entry just read.                       *)
(* ---------------------------------------------------------------------- *)
EvictsLeastRecentlyUsed ==
    [][(/\ thumbLog.op = "getThumbnail"
        /\ CacheHas(cache, thumbLog.key)
        /\ Len(cache) > 1
        /\ thumbLog'.op = "settle"
        /\ thumbLog'.evicted # <<>>) =>
           thumbLog'.evicted[1].key # thumbLog.key]_vars

(* ---------------------------------------------------------------------- *)
(* C34  Memory accounting is exact: the usage counter is the sum of the    *)
(* sizes of the resident segments, and no (start, end) key is resident     *)
(* twice.                                                                  *)
(* ---------------------------------------------------------------------- *)
MemoryAccountingExact ==
    /\ currentMemoryUsage = ResidentBytes(segments)
    /\ \A i, j \in 1 .. Len(segments) :
           SegmentId(segments[i]) = SegmentId(segments[j]) => i = j

(* ---------------------------------------------------------------------- *)
(* C36  Deduplication survives clearCache: no key has two generations in   *)
(* flight, and a generation that was in flight when clearCache ran does    *)
(* not store its result into the cleared cache.                            *)
(* ---------------------------------------------------------------------- *)
DedupSurvivesClearCache ==
    [][/\ \A p, q \in pending' : p.key = q.key => p.gen = q.gen
       /\ thumbLog.op = "clearCache" =>
              \A e \in Range(cache') : e.bitmap \notin {p.gen : p \in pending}]_vars

(* ---------------------------------------------------------------------- *)
(* C37  Subscribers see the final state: when the step that drains the     *)
(* decode queue changes the counts a subscriber was told in the step       *)
(* before, that subscriber is told the new ones, which are those of        *)
(* getMetrics(). (Nothing calls the subscribers once the queue is drained  *)
(* and the store is left alone, so what this step delivers is the last.)   *)
(* ---------------------------------------------------------------------- *)
SameCounts(h, g) ==
    /\ h.totalSegments = g.totalSegments
    /\ h.loadedSegments = g.loadedSegments
    /\ h.decodedSegments = g.decodedSegments
    /\ h.memoryUsage = g.memoryUsage

SubscribersSeeFinalState ==
    [][\A cb \in Range(bufferHealthCallbacks') :
           (/\ \E i \in 1 .. Len(notified) : notified[i][1] = cb
            /\ decoding # {}
            /\ decoding' = {}
            /\ decodeQueue' = <<>>
            /\ ~SameCounts(getMetrics.bufferHealth, getMetrics'.bufferHealth)) =>
               \E i \in 1 .. Len(notified') :
                   /\ notified'[i][1] = cb
                   /\ SameCounts(notified'[i][2], getMetrics'.bufferHealth)]_vars

(* ---------------------------------------------------------------------- *)
(* C38  A fetch started before clear() does not repopulate the store when  *)
(* it completes after the clear. Where the position changes by seeks only, *)
(* a pending fetch issued at another position than the present one was     *)
(* started before the clear() of the last seek: its completion leaves the  *)
(* store and the usage counter alone.                                      *)
(* ---------------------------------------------------------------------- *)
StaleFetchDoesNotRepopulate ==
    [][\A f \in BagToSet(fetches) :
           (f.currentTime # currentTime /\ fetches' = fetches (-) SetToBag({f})) =>
               /\ segments' = segments
               /\ currentMemoryUsage' = currentMemoryUsage]_vars

(* ---------------------------------------------------------------------- *)
(* C39  The health-driven controller is monotonic and reaches the widest   *)
(* horizon: the horizon a time update sets for a buffer health is at least *)
(* the one any higher health would get, and it is 15 when the health is 20 *)
(* or less.                                                                *)
(* ---------------------------------------------------------------------- *)
HealthDrivenHorizon ==
    [][\A health \in HealthInputs \ {NoHealth} :
           handleTimeUpdate(health) =>
               /\ \A higher \in HealthInputs \ {NoHealth} :
                      higher >= health =>
                          horizonFor(estimateNetworkSpeed(higher)) <= maxSegmentsAhead'
               /\ health <= 20 => maxSegmentsAhead' = 15]_vars

(* ---------------------------------------------------------------------- *)
(* C40  The preload horizon stays between 5 and 20 whatever the sequence   *)
(* of adaptiveBuffering, onFrameDrop, onBufferUnderrun and clear;          *)
(* onFrameDrop widens it by 2, up to 20, only when more than 5 frame drops *)
(* have been counted since the last clear, and clear() resets that count   *)
(* and leaves the horizon as it is.                                        *)
(* ---------------------------------------------------------------------- *)
HorizonBounded ==
    [][/\ minHorizon <= maxSegmentsAhead /\ maxSegmentsAhead <= maxHorizon
       /\ minHorizon <= maxSegmentsAhead' /\ maxSegmentsAhead' <= maxHorizon
       /\ OnFrameDrop =>
              /\ frameDropCount' = frameDropCount + 1
              /\ frameDropCount' <= frameDropThreshold =>
                     maxSegmentsAhead' = maxSegmentsAhead
              /\ frameDropCount' > frameDropThreshold =>
                     \/ maxSegmentsAhead' = maxSegmentsAhead + horizonStep
                     \/ /\ maxSegmentsAhead' = maxHorizon
                        /\ maxSegmentsAhead + horizonStep > maxHorizon
       /\ OnBufferUnderrun => maxSegmentsAhead' = maxSegmentsAhead
       /\ Clear => (maxSegmentsAhead' = maxSegmentsAhead /\ frameDropCount' = 0)]_vars

\* eight frame drops are counted and the horizon is at its limit: after one
\* adaptiveBuffering call, which set 15, the first five drops leave it alone
\* and the next three widen it to 17, 19 and 20
HorizonWidenedToLimit ==
    /\ maxSegmentsAhead = maxHorizon
    /\ frameDropCount = frameDropThreshold + 3
    /\ lastPreload.by = "none"
    /\ preloads = 1
    /\ bufferUnderrunCount = 0

====
